---- MODULE Spec2Model ----
(***************************************************************************)
(* The Pokemon HTTP service: PokemonController's handlers (create, list,   *)
(* count, getOne, delete) running as concurrent async requests against the *)
(* record store behind PokemonRepository.                                  *)
(*                                                                         *)
(* Every handler has one await.  Its first action is the handler up to     *)
(* that await together with the repository statement it awaits (the moment *)
(* the store executes the statement is the moment the request takes its    *)
(* place in the store's serial order); its second action is the            *)
(* continuation, which answers the request.  Other requests run between    *)
(* the two, so the table may change before a handler answers.              *)
(***************************************************************************)
EXTENDS Integers, Sequences, FiniteSets

VARIABLES variant, store, req

vars == <<variant, store, req>>

(***************************************************************************)
(* Bounds of the model.                                                    *)
(***************************************************************************)
\* number of HTTP requests handled in one behaviour
MaxReq == 3
\* longest raw ?limit= string
MaxLimitLen == 3
\* longest raw ?page= string
MaxPageLen == 2
\* largest pre-existing table of the list scenarios
MaxRecords == 12

Req == 1..MaxReq

(***************************************************************************)
(* Raw query strings: sequences of characters, or absent (undefined).      *)
(***************************************************************************)
Digits == <<"0", "1", "2", "3", "4", "5", "6", "7", "8", "9">>

LimitChars == {"-", "0", "1", "5"}
PageChars == {"-", "0", "1", "2"}

Absent == <<"undefined">>

StringsOver(chars, n) == UNION {[1..k -> chars] : k \in 0..n}

LimitQueries == {Absent} \cup StringsOver(LimitChars, MaxLimitLen)
PageQueries == {Absent} \cup StringsOver(PageChars, MaxPageLen)

(***************************************************************************)
(* JavaScript's Number(x) on a query value, as [nan, val].                 *)
(***************************************************************************)
IsDigit(c) == \E d \in 1..10 : Digits[d] = c

DigitVal(c) == (CHOOSE d \in 1..10 : Digits[d] = c) - 1

RECURSIVE DecimalValue(_)
DecimalValue(s) ==
  IF s = <<>> THEN 0
  ELSE 10 * DecimalValue(SubSeq(s, 1, Len(s) - 1)) + DigitVal(s[Len(s)])

AllDigits(s) == Len(s) > 0 /\ \A i \in 1..Len(s) : IsDigit(s[i])

NaN == [nan |-> TRUE, val |-> 0]

Number(q) ==
  IF q = Absent THEN NaN
  ELSE IF q = <<>> THEN [nan |-> FALSE, val |-> 0]
  ELSE IF AllDigits(q) THEN [nan |-> FALSE, val |-> DecimalValue(q)]
  ELSE IF q[1] = "-" /\ AllDigits(Tail(q))
    THEN [nan |-> FALSE, val |-> 0 - DecimalValue(Tail(q))]
  ELSE NaN

\* x || d : NaN and 0 are falsy
OrElse(n, d) == IF n.nan \/ n.val = 0 THEN d ELSE n.val

Min(a, b) == IF a < b THEN a ELSE b
Max(a, b) == IF a > b THEN a ELSE b

DefaultLimit == 50
MaxLimit == 100
DefaultPage == 1
MinPage == 1

\* Math.max written for Math.min
ListLimitMaxed(q) == Max(OrElse(Number(q), DefaultLimit), MaxLimit)

\* the cap at 100 left out
ListLimitUncapped(q) == OrElse(Number(q), DefaultLimit)

\* pages floored at 0 instead of 1
ListPageFloorZero(q) == Max(OrElse(Number(q), DefaultPage), 0)

\* the offset of a 0-based page number
ListOffsetZeroBased(page, limit) == page * limit

ListLimit(q) == Min(OrElse(Number(q), DefaultLimit), MaxLimit)
ListPage(q) == Max(OrElse(Number(q), DefaultPage), MinPage)
ListOffset(page, limit) == (page - 1) * limit

(***************************************************************************)
(* Records and the record store (the table behind PokemonRepository).      *)
(***************************************************************************)
Names == {"Pikachu", "Eevee"}
Types == {"Electric"}

Pokemon(name, type) == [name |-> name, type |-> type]

\* insert(record): a new row at the end of the table
RepoInsert(s, rec) == Append(s, rec)

\* findOne({where: {name}}): the first row with that name, or null (<<>>)
RepoFindOne(s, name) ==
  IF \E i \in 1..Len(s) : s[i].name = name
  THEN <<s[CHOOSE i \in 1..Len(s) :
            s[i].name = name /\ \A j \in 1..(i - 1) : s[j].name # name]>>
  ELSE <<>>

\* count()
RepoCount(s) == Len(s)

\* clear()
RepoClear(s) == <<>>

\* findAndCount({take, skip}): the rows skip+1 .. skip+take that exist
RepoPage(s, take, skip) ==
  SubSeq(s, Max(skip, 0) + 1, Min(skip + take, Len(s)))

\* the rows from skip on, with no upper limit
RepoRest(s, skip) == SubSeq(s, Max(skip, 0) + 1, Len(s))

\* What findAndCount may do with a window: a take below 1 or a negative skip
\* is outside what the store is specified for, and it may then answer with
\* an empty page, ignore the limit, or reject the statement.
FindOutcomes(take, skip) ==
  IF take >= 1 /\ skip >= 0 THEN {"page"} ELSE {"page", "rest", "reject"}

(***************************************************************************)
(* Requests.                                                               *)
(***************************************************************************)
Variants == {"part_000", "PokemonController.ts"}

NoReply == [ok |-> FALSE, rows |-> <<>>, total |-> 0]
NoBody == [msg |-> "", rows |-> <<>>, total |-> 0, limit |-> 0, page |-> 0]

Blank ==
  [op |-> "none", pc |-> "idle", name |-> "", type |-> "",
   qlimit |-> Absent, qpage |-> Absent, limit |-> 0, page |-> 0,
   take |-> 0, skip |-> 0, reply |-> NoReply, status |-> 0, body |-> NoBody,
   ackN |-> 0, ackK |-> 0]

\* Requests take the slots in the order their statements reach the store.
CanStart(r) ==
  /\ req[r].pc = "idle"
  /\ r > 1 => req[r - 1].pc # "idle"

\* Requests whose statement the store has executed so far.
Started == Cardinality({r \in Req : req[r].pc # "idle"})

\* Requests answered so far.
AnsweredCount == Cardinality({r \in Req : req[r].pc = "done"})

\* The continuation answers the request.  ackN notes how many statements the
\* store had executed by then, ackK the place of this answer among the
\* answers.
Respond(r, status, body) ==
  req' = [req EXCEPT ![r].pc = "done", ![r].status = status,
                     ![r].body = body, ![r].ackN = Started,
                     ![r].ackK = AnsweredCount + 1]

Init ==
  /\ variant \in Variants
  /\ store = <<>>
  /\ req = [r \in Req |-> Blank]

(***************************************************************************)
(* create                                                                  *)
(***************************************************************************)
CreatedMessage == "Pokémon criado com sucesso!"
CreateFailedMessage == "Erro ao criar Pokémon."
DeletedMessage == "Pokemons excluídos com sucesso!"

\* 201 whatever the insert returned
CreateStatusAlwaysCreated(result) == 201

\* await new PokemonRepository().insert(pokemon)
CreateStatement(s, pokemon) == RepoInsert(s, pokemon)

CreateStatus(result) == IF result THEN 201 ELSE 500

\* part_000 answers 201 with the entity, PokemonController.ts with a message
CreateBody(v, result, pokemon) ==
  IF ~result THEN [NoBody EXCEPT !.msg = CreateFailedMessage]
  ELSE IF v = "part_000" THEN [NoBody EXCEPT !.rows = <<pokemon>>]
  ELSE [NoBody EXCEPT !.msg = CreatedMessage]

\* The store persists the row, or fails to and says so in its result.
Create(r) ==
  /\ CanStart(r)
  /\ \E name \in Names, type \in Types, ok \in BOOLEAN :
       /\ store' = IF ok THEN CreateStatement(store, Pokemon(name, type))
                         ELSE store
       /\ req' = [req EXCEPT ![r].op = "create", ![r].pc = "resume",
                             ![r].name = name, ![r].type = type,
                             ![r].reply = [NoReply EXCEPT !.ok = ok]]
  /\ UNCHANGED variant

CreateResume(r) ==
  /\ req[r].pc = "resume" /\ req[r].op = "create"
  /\ Respond(r, CreateStatus(req[r].reply.ok),
             CreateBody(variant, req[r].reply.ok,
                        Pokemon(req[r].name, req[r].type)))
  /\ UNCHANGED <<variant, store>>

(***************************************************************************)
(* list (part_000 only)                                                    *)
(***************************************************************************)
\* await new PokemonRepository().findAndCount({take, skip})
ListStatement(s, take, skip, outcome) ==
  [ok |-> TRUE,
   rows |-> IF outcome = "page" THEN RepoPage(s, take, skip)
                                ELSE RepoRest(s, skip),
   total |-> RepoCount(s)]

\* total taken from the page instead of the count
ListBodyPageTotal(items, total, limit, page) ==
  [NoBody EXCEPT !.rows = items, !.total = Len(items), !.limit = limit,
                 !.page = page]

ListBody(items, total, limit, page) ==
  [NoBody EXCEPT !.rows = items, !.total = total, !.limit = limit,
                 !.page = page]

List(r) ==
  /\ CanStart(r)
  /\ variant = "part_000"
  /\ \E ql \in LimitQueries, qp \in PageQueries :
       LET limit == ListLimit(ql)
           page == ListPage(qp)
           offset == ListOffset(page, limit)
       IN \E outcome \in FindOutcomes(limit, offset) :
            req' = [req EXCEPT
                      ![r].op = "list", ![r].qlimit = ql, ![r].qpage = qp,
                      ![r].limit = limit, ![r].page = page,
                      ![r].take = limit, ![r].skip = offset,
                      ![r].pc = IF outcome = "reject" THEN "threw"
                                                      ELSE "resume",
                      ![r].reply = IF outcome = "reject" THEN NoReply
                                   ELSE ListStatement(store, limit, offset,
                                                      outcome)]
  /\ UNCHANGED <<variant, store>>

ListResume(r) ==
  /\ req[r].pc = "resume" /\ req[r].op = "list"
  /\ Respond(r, 200, ListBody(req[r].reply.rows, req[r].reply.total,
                              req[r].limit, req[r].page))
  /\ UNCHANGED <<variant, store>>

(***************************************************************************)
(* count                                                                   *)
(***************************************************************************)
\* await new PokemonRepository().count()
CountStatement(s) == RepoCount(s)

Count(r) ==
  /\ CanStart(r)
  /\ req' = [req EXCEPT ![r].op = "count", ![r].pc = "resume",
                        ![r].reply = [NoReply EXCEPT
                                        !.ok = TRUE,
                                        !.total = CountStatement(store)]]
  /\ UNCHANGED <<variant, store>>

\* {total} in part_000, {count: countPokemon} in PokemonController.ts
CountResume(r) ==
  /\ req[r].pc = "resume" /\ req[r].op = "count"
  /\ Respond(r, 200, [NoBody EXCEPT !.total = req[r].reply.total])
  /\ UNCHANGED <<variant, store>>

(***************************************************************************)
(* getOne                                                                  *)
(***************************************************************************)
\* findOne() called without the where clause
GetOneStatementAny(s, name) == IF s = <<>> THEN <<>> ELSE <<s[1]>>

\* the two statuses swapped
GetOneStatusSwapped(pokemon) == IF pokemon # <<>> THEN 404 ELSE 200

\* await new PokemonRepository().findOne({where: {name}})
GetOneStatement(s, name) == RepoFindOne(s, name)

GetOneStatus(pokemon) == IF pokemon # <<>> THEN 200 ELSE 404

GetOne(r) ==
  /\ CanStart(r)
  /\ \E name \in Names :
       req' = [req EXCEPT ![r].op = "getOne", ![r].pc = "resume",
                          ![r].name = name,
                          ![r].reply =
                            [NoReply EXCEPT
                               !.ok = TRUE,
                               !.rows = GetOneStatement(store, name)]]
  /\ UNCHANGED <<variant, store>>

GetOneResume(r) ==
  /\ req[r].pc = "resume" /\ req[r].op = "getOne"
  /\ Respond(r, GetOneStatus(req[r].reply.rows),
             [NoBody EXCEPT !.rows = req[r].reply.rows])
  /\ UNCHANGED <<variant, store>>

(***************************************************************************)
(* delete                                                                  *)
(***************************************************************************)
\* only one record removed
DeleteStatementOne(s) == IF s = <<>> THEN s ELSE Tail(s)

\* the clear never issued
DeleteStatementNone(s) == s

\* await new PokemonRepository().clear()
DeleteStatement(s) == RepoClear(s)

Delete(r) ==
  /\ CanStart(r)
  /\ store' = DeleteStatement(store)
  /\ req' = [req EXCEPT ![r].op = "delete", ![r].pc = "resume",
                        ![r].reply = [NoReply EXCEPT !.ok = TRUE]]
  /\ UNCHANGED variant

DeleteResume(r) ==
  /\ req[r].pc = "resume" /\ req[r].op = "delete"
  /\ Respond(r, 200, [NoBody EXCEPT !.msg = DeletedMessage])
  /\ UNCHANGED <<variant, store>>

(***************************************************************************)
(* The service under concurrent requests that write the table, look a      *)
(* name up, or count.                                                      *)
(***************************************************************************)
Next ==
  \E r \in Req :
    \/ Create(r) \/ CreateResume(r)
    \/ Count(r) \/ CountResume(r)
    \/ GetOne(r) \/ GetOneResume(r)
    \/ Delete(r) \/ DeleteResume(r)

Spec == Init /\ [][Next]_vars

(***************************************************************************)
(* list alone, on every raw query value, over a table that already holds   *)
(* records.                                                                *)
(***************************************************************************)
Pokedex ==
  <<"Bulbasaur", "Ivysaur", "Venusaur", "Charmander", "Charmeleon",
    "Charizard", "Squirtle", "Wartortle", "Blastoise", "Caterpie",
    "Metapod", "Butterfree", "Weedle", "Kakuna">>

Seed(n) ==
  [i \in 1..n |-> Pokemon(Pokedex[((i - 1) % Len(Pokedex)) + 1], "Grass")]

SeedSizes == {0, 2, MaxRecords}

InitList ==
  /\ variant = "part_000"
  /\ store \in {Seed(n) : n \in SeedSizes}
  /\ req = [r \in Req |-> Blank]

NextList ==
  \/ List(1)
  \/ ListResume(1)

SpecList == InitList /\ [][NextList]_vars

(***************************************************************************)
(* Properties of list, checked under SpecList.                             *)
(***************************************************************************)
IsList(r) == req[r].op = "list"
Answered(r) == req[r].pc = "done"

\* a raw value that is a plain decimal numeral
IsNumeral(q) == q # Absent /\ AllDigits(q)

\* a raw value that Number() reads as an integer
IsInteger(q) == ~Number(q).nan

\* v is what the store is handed as take and what the response echoes as limit
EffectiveLimitIs(r, v) ==
  /\ req[r].take = v
  /\ Answered(r) => req[r].body.limit = v

\* the rows of s at the 0-based indices offset .. offset+limit-1 that exist
Window(s, offset, limit) ==
  [j \in 1..Max(0, Min(limit, Len(s) - offset)) |-> s[offset + j]]

\* C1: the effective limit of list is 50 when the limit parameter is absent,
\* exactly 100 for every provided limit above 100, and the provided value for
\* every provided limit from 1 to 100.
C1_EffectiveLimit ==
  \A r \in Req :
    IsList(r) =>
      LET q == req[r].qlimit IN
        /\ q = Absent => EffectiveLimitIs(r, 50)
        /\ IsNumeral(q) /\ DecimalValue(q) > 100 => EffectiveLimitIs(r, 100)
        /\ IsNumeral(q) /\ DecimalValue(q) \in 1..100
             => EffectiveLimitIs(r, DecimalValue(q))

\* a list answered for ?limit=101 and one parameter left out
C1_Witness ==
  \E r \in Req :
    /\ IsList(r) /\ Answered(r)
    /\ req[r].qlimit = <<"1", "0", "1">>
    /\ req[r].qpage = Absent
    /\ req[r].body.limit = 100

\* C2: for every provided page value <= 0 (0 included) and for an absent
\* page, the page echoed in the response is 1 and the skip handed to the
\* store is 0.
C2_PageFloor ==
  \A r \in Req :
    IsList(r) =>
      LET q == req[r].qpage IN
        (q = Absent \/ (IsInteger(q) /\ Number(q).val <= 0)) =>
          /\ req[r].skip = 0
          /\ req[r].page = 1
          /\ Answered(r) => req[r].body.page = 1

\* a list answered for ?page=-1 with a limit of its own
C2_Witness ==
  \E r \in Req :
    /\ IsList(r) /\ Answered(r)
    /\ req[r].qpage = <<"-", "1">>
    /\ req[r].qlimit = <<"5">>
    /\ req[r].body.page = 1
    /\ req[r].skip = 0

\* C3: the skip handed to the store equals (page - 1) * limit for the page
\* and limit returned in the response body.
C3_OffsetInvariant ==
  \A r \in Req :
    IsList(r) /\ Answered(r) =>
      req[r].skip = (req[r].body.page - 1) * req[r].body.limit

\* a list answered for page 2 of 5 per page: skip 5
C3_Witness ==
  \E r \in Req :
    /\ IsList(r) /\ Answered(r)
    /\ req[r].body.page = 2
    /\ req[r].body.limit = 5
    /\ req[r].skip = 5

\* C4 as stated: list answers 200 with items the slice of the table from
\* the offset on, holding at most the effective limit of records, and with
\* total the number of all records of the table.
C4_Original ==
  \A r \in Req :
    IsList(r) /\ Answered(r) =>
      /\ req[r].status = 200
      /\ req[r].body.rows =
           Window(store, ListOffset(req[r].body.page, req[r].body.limit),
                  req[r].body.limit)
      /\ Len(req[r].body.rows) <= req[r].body.limit
      /\ req[r].body.total = Len(store)

\* C4 amended: whenever the effective limit is at least 1 (limit absent,
\* zero, not a number, or positive), list is answered, with 200, with items
\* the slice of the table from the offset on holding at most the effective
\* limit of records (fewer only when the table runs out), and with total the
\* number of all records of the table.
C4_PageSlice ==
  \A r \in Req :
    IsList(r) /\ req[r].limit >= 1 =>
      /\ req[r].pc # "threw"
      /\ Answered(r) =>
           LET offset == (req[r].body.page - 1) * req[r].body.limit
               items == req[r].body.rows
           IN /\ req[r].status = 200
              /\ req[r].body.limit = req[r].limit
              /\ items = Window(store, offset, req[r].limit)
              /\ Len(items) <= req[r].limit
              /\ Len(items) < req[r].limit => offset + Len(items) >= Len(store)
              /\ req[r].body.total = Len(store)

\* 12 records, limit=5, page=2: the records at indices 5..9 and total 12
C4_Witness ==
  \E r \in Req :
    /\ IsList(r) /\ Answered(r)
    /\ Len(store) = 12
    /\ req[r].qlimit = <<"5">> /\ req[r].qpage = <<"2">>
    /\ req[r].body.rows = SubSeq(store, 6, 10)
    /\ req[r].body.total = 12
    /\ req[r].body.limit = 5 /\ req[r].body.page = 2

\* C10 as stated: for every list request with integer limit and page values
\* the take handed to the store is between 1 and 100 and the skip is >= 0.
C10_Original ==
  \A r \in Req :
    IsList(r) /\ IsInteger(req[r].qlimit) /\ IsInteger(req[r].qpage) =>
      /\ req[r].take \in 1..100
      /\ req[r].skip >= 0

\* C10 amended: for every list request the take handed to the store is at
\* most 100; it is between 1 and 100, with a skip >= 0, unless the limit
\* value is negative, and a negative limit is handed on as it is, with a
\* skip <= 0.
C10_TakeSkipRange ==
  \A r \in Req :
    IsList(r) =>
      LET n == Number(req[r].qlimit) IN
        /\ req[r].take <= 100
        /\ (n.nan \/ n.val >= 0) => req[r].take \in 1..100 /\ req[r].skip >= 0
        /\ (~n.nan /\ n.val < 0) => req[r].take = n.val /\ req[r].skip <= 0

\* ?limit=-5&page=2 reaches the store as take -5, skip -5
C10_Witness ==
  \E r \in Req :
    /\ IsList(r)
    /\ req[r].qlimit = <<"-", "5">> /\ req[r].qpage = <<"2">>
    /\ req[r].take = 0 - 5 /\ req[r].skip = 0 - 5

(***************************************************************************)
(* Properties of create, getOne, count and delete, checked under Spec.     *)
(* The store executes the statements in slot order: r < q says that r's    *)
(* statement ran before q's, q <= req[r].ackN that q's statement ran       *)
(* before r was answered, and req[r].ackK < req[q].ackK that r was         *)
(* answered before q.                                                      *)
(***************************************************************************)
IsCreate(r) == req[r].op = "create"
IsDelete(r) == req[r].op = "delete"
IsGetOne(r) == req[r].op = "getOne"
IsCount(r) == req[r].op = "count"

\* r is a create whose insert persisted its record
Inserted(r) == IsCreate(r) /\ req[r].reply.ok

\* r is a create that has been answered 201
Created(r) == IsCreate(r) /\ Answered(r) /\ req[r].status = 201

Holds(s, name) == \E i \in 1..Len(s) : s[i].name = name

\* a delete whose clear ran after r's statement and before q's
ClearBetween(r, q) == \E d \in Req : IsDelete(d) /\ r < d /\ d < q

\* a create whose insert persisted after r's statement and before q's
InsertBetween(r, q) == \E c \in Req : Inserted(c) /\ r < c /\ c < q

\* g is a getOne that found a record called by the name it asked for
Found(g) ==
  /\ req[g].reply.rows # <<>>
  /\ req[g].reply.rows[1].name = req[g].name
  /\ Answered(g) => /\ req[g].status = 200
                    /\ req[g].body.rows = req[g].reply.rows

\* no delete runs between the answer to c and the lookup of g: every delete
\* ahead of g had run its clear and been answered before c was answered
NoDeleteSinceAnswer(c, g) ==
  \A d \in Req :
    IsDelete(d) /\ d < g =>
      d <= req[c].ackN /\ Answered(d) /\ req[d].ackK < req[c].ackK

\* C5 as stated: after create(name) has been answered 201, and as long as no
\* delete runs afterwards, every subsequent getOne(name) is answered 200
\* with a record of that name.
C5_Original ==
  \A c, g \in Req :
    ( /\ Created(c)
      /\ IsGetOne(g) /\ req[g].name = req[c].name
      /\ g > req[c].ackN
      /\ NoDeleteSinceAnswer(c, g) )
    => Found(g)

\* C5 amended: after create(name) has been answered 201, every subsequent
\* getOne(name) is answered 200 with a record of that name as long as no
\* delete has cleared the table since the create's insert, be it a delete
\* running afterwards or one handled concurrently with the create; this
\* holds also when a record with that name already existed.
C5_CreateThenGetOne ==
  \A c, g \in Req :
    ( /\ Created(c)
      /\ IsGetOne(g) /\ req[g].name = req[c].name
      /\ g > req[c].ackN
      /\ ~ClearBetween(c, g) )
    => Found(g)

\* a second create of a name already in the table, then a getOne of it
C5_Witness ==
  \E b, c, g \in Req :
    /\ Inserted(b) /\ b < c /\ req[b].name = req[c].name
    /\ Created(c)
    /\ IsGetOne(g) /\ req[g].name = req[c].name /\ g > req[c].ackN
    /\ Answered(g) /\ req[g].status = 200
    /\ req[g].body.rows = <<Pokemon(req[c].name, req[c].type)>>

\* the lookup of getOne, when it runs, finds a record exactly when the
\* table holds one with the name asked for
GetOneLookup(g) ==
  req[g].pc = "idle" /\ req'[g].op = "getOne" =>
    (req'[g].reply.rows # <<>> <=> Holds(store, req'[g].name))

\* what getOne answers, given what the lookup returned
GetOneAnswer(g) ==
  IF req[g].reply.rows # <<>>
  THEN /\ req[g].status = 200
       /\ req[g].body.rows = req[g].reply.rows
       /\ req[g].body.rows[1].name = req[g].name
  ELSE /\ req[g].status = 404
       /\ req[g].body.rows = <<>>

\* C6: getOne(name) is answered 200 with a record whose name is name if and
\* only if the table holds a record with that name at the time of the
\* lookup; otherwise it is answered 404 with data null.
C6_GetOneExact ==
  /\ [][\A g \in Req : GetOneLookup(g)]_vars
  /\ [](\A g \in Req : IsGetOne(g) /\ Answered(g) => GetOneAnswer(g))

\* one getOne answered 200 and another 404 while the table holds a record
C6_Witness ==
  \E c, g, h \in Req :
    /\ Inserted(c) /\ c < g /\ g < h /\ store # <<>>
    /\ IsGetOne(g) /\ Answered(g) /\ req[g].status = 200
    /\ req[g].body.rows[1].name = req[g].name
    /\ IsGetOne(h) /\ Answered(h) /\ req[h].status = 404
    /\ req[h].body.rows = <<>>

\* C7: delete is answered 200 and leaves the table empty from every state,
\* an empty table included: a count whose statement follows a delete's, with
\* no insert in between, returns 0, also when more deletes ran in between.
C7_DeleteAll ==
  \A d \in Req :
    IsDelete(d) =>
      /\ req[d].pc # "threw"
      /\ Answered(d) => req[d].status = 200 /\ req[d].body.msg = DeletedMessage
      /\ ~InsertBetween(d, MaxReq + 1) => store = <<>>
      /\ \A k \in Req :
           IsCount(k) /\ d < k /\ ~InsertBetween(d, k) =>
             /\ req[k].reply.total = 0
             /\ Answered(k) => req[k].status = 200 /\ req[k].body.total = 0

\* a record is created, delete is answered 200, a count then returns 0
C7_Witness ==
  \E c, d, k \in Req :
    /\ Inserted(c) /\ c < d /\ d < k
    /\ IsDelete(d) /\ Answered(d) /\ req[d].status = 200
    /\ IsCount(k) /\ Answered(k) /\ req[k].body.total = 0

\* the insert of create, when it runs, persists the record exactly when the
\* store says so
CreateInsert(c) ==
  req[c].pc = "idle" /\ req'[c].op = "create" =>
    store' = IF req'[c].reply.ok
             THEN Append(store, Pokemon(req'[c].name, req'[c].type))
             ELSE store

\* what create answers, given the result of the insert
CreateAnswer(c) ==
  /\ req[c].pc # "threw"
  /\ req[c].pc = "resume" => ENABLED CreateResume(c)
  /\ Answered(c) =>
       IF req[c].reply.ok
       THEN req[c].status = 201
       ELSE /\ req[c].status = 500
            /\ req[c].body.msg = CreateFailedMessage
            /\ req[c].body.rows = <<>>

RECURSIVE InsertedFrom(_)
InsertedFrom(from) ==
  IF from > MaxReq THEN <<>>
  ELSE (IF Inserted(from)
        THEN <<Pokemon(req[from].name, req[from].type)>> ELSE <<>>)
       \o InsertedFrom(from + 1)

\* the slot of the last delete executed, 0 when there is none
LastDelete ==
  IF \E d \in Req : IsDelete(d)
  THEN CHOOSE d \in Req : IsDelete(d) /\ \A e \in Req : IsDelete(e) => e <= d
  ELSE 0

\* C9: with a create and a delete handled concurrently, the fate of the
\* created record is decided by the order of their statements at the store
\* alone: it is absent when the clear ran after the insert, although create
\* is answered 201, and present when the insert ran after the clear; no
\* handler keeps either order from happening.
C9_CreateDeleteRace ==
  /\ store = InsertedFrom(LastDelete + 1)
  /\ \A r \in Req :
       /\ CanStart(r) => ENABLED Create(r) /\ ENABLED Delete(r)
       /\ (IsCreate(r) \/ IsDelete(r)) /\ req[r].pc = "resume" =>
            ENABLED (CreateResume(r) \/ DeleteResume(r))
       /\ Inserted(r) /\ Answered(r) => req[r].status = 201

\* one delete races two creates: the clear runs while the first create is
\* in flight, the second insert while the delete is in flight; the first
\* create is answered 201 and its record is gone, the second survives
C9_Witness ==
  \E b, d, c \in Req :
    /\ b < d /\ d < c
    /\ Created(b) /\ Inserted(b) /\ d <= req[b].ackN
    /\ IsDelete(d) /\ Answered(d) /\ req[d].status = 200 /\ c <= req[d].ackN
    /\ Created(c) /\ Inserted(c)
    /\ req[b].name # req[c].name
    /\ ~Holds(store, req[b].name)
    /\ Holds(store, req[c].name)

====
